---- MODULE Spec2Model ----
(***************************************************************************)
(* Retrieval core of Basic_Rag_App: chunk_text (utils/chunking.py),        *)
(* get_embedding (utils/embedding.py), load_faiss_index and retrieve_top_k *)
(* (utils/retrieval.py).                                                   *)
(*                                                                         *)
(* A str is a sequence of one-character strings.  A Python call either     *)
(* returns or raises: [ok |-> TRUE, val |-> v] or                          *)
(* [ok |-> FALSE, exc |-> class, msg |-> message, arg |-> the text the     *)
(* message quotes].                                                        *)
(***************************************************************************)
EXTENDS Integers, Sequences, FiniteSets, TLC

VARIABLES
    \* chunk_text call: its arguments, its outcome, its position
    text, max_words, chunkOut, cpc,
    \* retrieve_top_k call: its arguments
    query, rIndex, rMapping, k, api_key,
    \* retrieve_top_k call: its locals (k after line 162, query_embedding,
    \* indices[0], valid_indices), its outcome, its position
    kUsed, query_embedding, indices, valid_indices, rOut, rpc,
    \* the files: DATA_FILE, INDEX_FILE, MAPPING_FILE
    dataFile, indexFile, mappingFile,
    \* load_faiss_index run: its api_key, its locals (chunks, the loop's
    \* position in chunks, embeddings, mapping), its outcome, its position
    lKey, chunks, ci, embeddings, lMapping, lOut, lpc,
    \* what the run did so far: the branch of line 78 it took, whether it read
    \* DATA_FILE, the chunks it posted to the embedding service and the
    \* answers it got; and the artifacts as the run found them
    branch, readDoc, embedLog, respLog, indexFile0, mappingFile0,
    \* the pair the last completed build returned, and whether a build had
    \* completed when the run started
    built, builtAtStart

chunkVars == <<text, max_words, chunkOut, cpc>>

retrieveVars == <<query, rIndex, rMapping, k, api_key, kUsed, query_embedding,
                  indices, valid_indices, rOut, rpc>>

fileVars == <<dataFile, indexFile, mappingFile>>

runVars == <<lKey, chunks, ci, embeddings, lMapping, lOut, lpc>>

ghostVars == <<branch, readDoc, embedLog, respLog, indexFile0, mappingFile0,
               built, builtAtStart>>

loadVars == <<fileVars, runVars, ghostVars>>

vars == <<chunkVars, retrieveVars, loadVars>>

----------------------------------------------------------------------------
(* Bounds of the model *)

\* longest text handed to chunk_text in SpecChunk
MaxLen == 6
\* largest max_words handed to chunk_text in SpecChunk
MaxWords == 3
\* most vectors in an index handed to retrieve_top_k in SpecRetrieve
MaxIndexSize == 3
\* largest k handed to retrieve_top_k in SpecRetrieve
MaxK == 4
\* most entries of a MAPPING_FILE written by something other than the program
MaxTamperLen == 2

----------------------------------------------------------------------------
(* Python values *)

None == [none |-> TRUE]

Ok(v) == [ok |-> TRUE, val |-> v]

RaiseFor(cls, m, a) == [ok |-> FALSE, exc |-> cls, msg |-> m, arg |-> a]

Raise(cls, m) == RaiseFor(cls, m, <<>>)

\* the characters of the modelled texts: two word characters, two whitespace
WordChars == {"a", "b"}
SpaceChars == {" ", "\n"}
Alphabet == WordChars \cup SpaceChars

\* str.isspace(), which str.strip() and the regex class \s both use
IsSpace(c) == c \in SpaceChars

----------------------------------------------------------------------------
(* utils/chunking.py *)

\* <<1, 2, ..., n>>
Positions(n) == [i \in 1..n |-> i]

\* text.strip(): from the first to the last character that is no whitespace
Strip(s) ==
    LET solid == SelectSeq(Positions(Len(s)), LAMBDA i : ~IsSpace(s[i]))
    IN IF solid = <<>> THEN <<>>
       ELSE SubSeq(s, solid[1], solid[Len(solid)])

\* re.split(r"\s+", s): s is cut at every maximal run of whitespace; a run
\* at either end of s leaves an empty piece there
ReSplit(s) ==
    LET n == Len(s)
        runStarts == SelectSeq(Positions(n),
                        LAMBDA i : IsSpace(s[i]) /\ (i = 1 \/ ~IsSpace(s[i - 1])))
        runEnds == SelectSeq(Positions(n),
                        LAMBDA i : IsSpace(s[i]) /\ (i = n \/ ~IsSpace(s[i + 1])))
        r == Len(runStarts)
    IN [j \in 1..(r + 1) |->
          SubSeq(s, IF j = 1 THEN 1 ELSE runEnds[j - 1] + 1,
                    IF j = r + 1 THEN n ELSE runStarts[j] - 1)]

\* " ".join(ws), the two halves of ws joined first
RECURSIVE Join(_)
Join(ws) ==
    IF ws = <<>> THEN <<>>
    ELSE IF Len(ws) = 1 THEN ws[1]
    ELSE LET h == Len(ws) \div 2
         IN Join(SubSeq(ws, 1, h)) \o <<" ">> \o Join(SubSeq(ws, h + 1, Len(ws)))

\* words[i : i + n] with a 0-based i, clipped at the end like a Python slice
SliceShort(ws, i, n) ==
    SubSeq(ws, i + 1, IF i + n - 1 < Len(ws) THEN i + n - 1 ELSE Len(ws))
Slice(ws, i, n) ==
    SubSeq(ws, i + 1, IF i + n < Len(ws) THEN i + n ELSE Len(ws))

\* list(range(i, stop, step))
RECURSIVE PyRange(_, _, _)
PyRange(i, stop, step) ==
    IF i >= stop THEN <<>> ELSE <<i>> \o PyRange(i + step, stop, step)

chunk_text(t, mw) ==
    LET stripped_text == Strip(t) IN
    IF stripped_text = <<>>
    THEN Raise("ValueError", "text cannot be empty or whitespace-only")
    ELSE IF mw < 1
    THEN Raise("ValueError", "max_words must be at least 1")
    ELSE LET words == ReSplit(stripped_text) IN
         IF Len(words) <= mw
         THEN Ok(<<stripped_text>>)
         ELSE LET starts == PyRange(0, Len(words), mw) IN
              Ok([j \in 1..Len(starts) |-> Join(Slice(words, starts[j], mw))])

----------------------------------------------------------------------------
(* numpy arrays and JSON values *)

\* retrieval.py line 21
EMBEDDING_DIM == 1536

\* A 1-D float32 array of n numbers is [shape |-> <<n>>, lead |-> v]: its first
\* Len(v) numbers are v and the others are 0.0.  A 0-d array has shape <<>>.
NdArray(n, v) == [shape |-> <<n>>, lead |-> v]
NdScalar == [shape |-> <<>>, lead |-> <<>>]

\* the leading coordinates the embedding service answers with
LeadVectors == {<<0, 0>>, <<1, 1>>, <<2, 2>>, <<0, 1>>, <<1, 0>>}

\* A JSON value: its type t; a dict's keys and, in key order, their values
\* (items); an array's entries (items); a list of n numbers led by lead.
JValue(t, keys, items, n, lead) ==
    [t |-> t, keys |-> keys, items |-> items, n |-> n, lead |-> lead]
JInvalid == JValue("invalid", {}, <<>>, 0, <<>>)
JNum == JValue("num", {}, <<>>, 0, <<>>)
JStr == JValue("str", {}, <<>>, 0, <<>>)
JArray(items) == JValue("array", {}, items, 0, <<>>)
JDict1(key, v) == JValue("dict", {key}, <<v>>, 0, <<>>)
JDict0 == JValue("dict", {}, <<>>, 0, <<>>)
JNumList(n, v) == JValue("numlist", {}, <<>>, n, v)

\* d[key] of a dict with at most one key
JGet(d, key) == d.items[1]

\* np.asarray(x, dtype=float32)
np_asarray(x) ==
    CASE x.t = "numlist" -> Ok(NdArray(x.n, x.lead))
      [] x.t = "num" -> Ok(NdScalar)
      [] OTHER -> Raise("ValueError", "could not convert to float")

\* arr.shape[0]
Shape0(arr) ==
    IF arr.shape = <<>>
    THEN Raise("IndexError", "tuple index out of range")
    ELSE Ok(arr.shape[1])

----------------------------------------------------------------------------
(* utils/embedding.py *)

\* What the embedding service does with one POST: the transport fails, it
\* answers with a non-success status, or it answers 200 with a body.
Transport == [t |-> "transport", status |-> 0, body |-> JInvalid]
HttpStatus(st) == [t |-> "http", status |-> st, body |-> JInvalid]
Body(j) == [t |-> "body", status |-> 200, body |-> j]

Embeddings ==
    {JNumList(EMBEDDING_DIM, v) : v \in LeadVectors}
    \cup {JNumList(EMBEDDING_DIM - 1, <<1, 1>>), JNumList(EMBEDDING_DIM + 1, <<1, 1>>),
          JNum, JStr}

Responses ==
    {Transport, HttpStatus(500), Body(JInvalid), Body(JArray(<<>>)),
     Body(JDict0), Body(JDict1("data", JNum)), Body(JDict1("data", JArray(<<>>))),
     Body(JDict1("data", JArray(<<JDict0>>))), Body(JDict1("data", JArray(<<JNum>>)))}
    \cup {Body(JDict1("data", JArray(<<JDict1("embedding", e)>>))) : e \in Embeddings}

\* the answers the service gives while an index is built
BuildResponses ==
    {Transport, HttpStatus(500), Body(JDict0),
     Body(JDict1("data", JArray(<<JDict0>>)))}
    \cup {Body(JDict1("data", JArray(<<JDict1("embedding", e)>>))) :
            e \in {JNumList(EMBEDDING_DIM, <<0, 0>>), JNumList(EMBEDDING_DIM, <<1, 1>>),
                   JNumList(EMBEDDING_DIM + 1, <<1, 1>>), JNum}}

\* _ensure_api_key: None and "" are both falsy
ensure_api_key(key) ==
    IF key = ""
    THEN Raise("ValueError", "An API key must be supplied via the api_key argument.")
    ELSE Ok(key)

\* get_embedding(txt, api_key=key), the service answering resp
get_embedding(txt, key, resp) ==
    IF ~(Len(txt) > 0)
    THEN Raise("ValueError", "Text must be a non-empty string.")
    ELSE IF ~ensure_api_key(key).ok
    THEN ensure_api_key(key)
    ELSE IF resp.t = "http"
    THEN Raise("HTTPError", "Error while embedding API request")
    ELSE IF resp.t = "transport"
    THEN Raise("RequestException", "Network Error while connecting to embedding API")
    ELSE LET data == resp.body IN
         IF data.t = "invalid"
         THEN Raise("ValueError", "Failed to parse JSON response")
         ELSE IF data.t # "dict"
         THEN Raise("ValueError", "Invalid JSON response object")
         ELSE IF \/ "data" \notin data.keys
                 \/ JGet(data, "data").t # "array"
                 \/ Len(JGet(data, "data").items) = 0
         THEN Raise("ValueError", "Response does not contain any data.")
         ELSE LET entry == JGet(data, "data").items[1] IN
              IF entry.t # "dict" \/ "embedding" \notin entry.keys
              THEN Raise("KeyError", "Error while parsing embedding API response")
              ELSE np_asarray(JGet(entry, "embedding"))

\* whether get_embedding gets as far as requests.post (line 90)
PostsRequest(txt, key) == Len(txt) > 0 /\ key # ""

----------------------------------------------------------------------------
(* faiss.IndexFlatL2, as retrieval.py uses it *)

\* An index in memory: its dimension, its vector count, its vectors.
FaissIndex(xb) == [d |-> EMBEDDING_DIM, ntotal |-> Len(xb), xb |-> xb]

\* squared Euclidean distance of two vectors of one length
RECURSIVE L2sqr(_, _)
L2sqr(a, b) ==
    IF a = <<>> THEN 0
    ELSE (a[1] - b[1]) * (a[1] - b[1]) + L2sqr(Tail(a), Tail(b))

\* The result list of the flat scan takes one more candidate: it goes after
\* the entries that are no farther (a later position never displaces an
\* earlier one at the same distance).
InsertCandidate(res, e) ==
    LET p == Cardinality({j \in 1..Len(res) : res[j].dist <= e.dist})
    IN SubSeq(res, 1, p) \o <<e>> \o SubSeq(res, p + 1, Len(res))

\* the scan of xb from row i, keeping the kk best
RECURSIVE FlatScan(_, _, _, _, _)
FlatScan(xb, q, i, kk, res) ==
    IF i > Len(xb) THEN res
    ELSE LET r2 == InsertCandidate(res, [dist |-> L2sqr(q, xb[i]), id |-> i - 1])
         IN FlatScan(xb, q, i + 1, kk,
                     SubSeq(r2, 1, IF Len(r2) < kk THEN Len(r2) ELSE kk))

\* index.search(x, k=kk)[1][0]: kk labels, nearest first, -1 where the index
\* has no further vector; the wrapper asserts the dimension and kk > 0
index_search(index, q, kk) ==
    IF q.shape[1] # index.d
    THEN Raise("AssertionError", "d == self.d")
    ELSE IF ~(kk > 0)
    THEN Raise("AssertionError", "k > 0")
    ELSE LET res == FlatScan(index.xb, q.lead, 1, kk, <<>>)
         IN Ok([j \in 1..kk |-> IF j <= Len(res) THEN res[j].id ELSE -1])

----------------------------------------------------------------------------
(* utils/retrieval.py: retrieve_top_k *)

\* min(k, len(mapping)), line 162
ClampNone(kk, n) == kk
Clamp(kk, n) == IF kk < n THEN kk ELSE n

\* [i for i in indices[0] if i >= 0], line 171
RECURSIVE FilterValid(_)
FilterValid(ix) ==
    IF ix = <<>> THEN <<>>
    ELSE IF Head(ix) >= 0 THEN <<Head(ix)>> \o FilterValid(Tail(ix))
    ELSE FilterValid(Tail(ix))

\* lst[i] of a Python list: a negative i counts from the end
PyIndex(lst, i) ==
    IF i >= 0 /\ i < Len(lst) THEN Ok(lst[i + 1])
    ELSE IF i < 0 /\ -i <= Len(lst) THEN Ok(lst[Len(lst) + i + 1])
    ELSE Raise("IndexError", "list index out of range")

\* [mapping[i] for i in valid_indices], line 172
LookupReversed(mapping, ix) ==
    IF \E j \in 1..Len(ix) : ~PyIndex(mapping, ix[j]).ok
    THEN Raise("IndexError", "list index out of range")
    ELSE Ok([j \in 1..Len(ix) |-> PyIndex(mapping, ix[Len(ix) + 1 - j]).val])
LookupAll(mapping, ix) ==
    IF \E j \in 1..Len(ix) : ~PyIndex(mapping, ix[j]).ok
    THEN Raise("IndexError", "list index out of range")
    ELSE Ok([j \in 1..Len(ix) |-> PyIndex(mapping, ix[j]).val])

\* the check both callers of get_embedding make of the array they get
\* (lines 104-108 and 165-169): arr.shape[0] != EMBEDDING_DIM raises
DimensionCheckSkipped(arr, what, txt) == Ok(arr)
DimensionCheck(arr, what, txt) ==
    IF ~Shape0(arr).ok THEN Shape0(arr)
    ELSE IF Shape0(arr).val # EMBEDDING_DIM
    THEN RaiseFor("ValueError", what, txt)
    ELSE Ok(arr)

QueryMismatch == "Embedding dimension mismatch for query"
ChunkMismatch == "Embedding dimension mismatch for chunk"

\* lines 164-169: the query's embedding, checked
EmbedQuery(q, key, resp) ==
    LET emb == get_embedding(q, key, resp) IN
    IF ~emb.ok THEN emb ELSE DimensionCheck(emb.val, QueryMismatch, q)

\* lines 158-162: the argument checks and the clamp
RetrieveValidate ==
    /\ rpc = "call"
    /\ IF Len(query) = 0
       THEN /\ rOut' = Raise("ValueError", "Query must be a non-empty string.")
            /\ rpc' = "done"
            /\ UNCHANGED kUsed
       ELSE IF k <= 0
       THEN /\ rOut' = Raise("ValueError", "k must be a positive integer.")
            /\ rpc' = "done"
            /\ UNCHANGED kUsed
       ELSE /\ kUsed' = Clamp(k, Len(rMapping))
            /\ rpc' = "embed"
            /\ UNCHANGED rOut
    /\ UNCHANGED <<query, rIndex, rMapping, k, api_key, query_embedding,
                   indices, valid_indices, chunkVars, loadVars>>

\* lines 164-169: the query is embedded and its dimension checked
RetrieveEmbed ==
    /\ rpc = "embed"
    /\ \E resp \in Responses :
         LET emb == EmbedQuery(query, api_key, resp) IN
         IF ~emb.ok
         THEN rOut' = emb /\ rpc' = "done" /\ UNCHANGED query_embedding
         ELSE /\ query_embedding' = emb.val
              /\ rpc' = "search"
              /\ UNCHANGED rOut
    /\ UNCHANGED <<query, rIndex, rMapping, k, api_key, kUsed, indices,
                   valid_indices, chunkVars, loadVars>>

\* lines 170-172: the search, the filter and the lookup
RetrieveSearch ==
    /\ rpc = "search"
    /\ LET found == index_search(rIndex, query_embedding, kUsed) IN
       IF ~found.ok
       THEN rOut' = found /\ UNCHANGED <<indices, valid_indices>>
       ELSE /\ indices' = found.val
            /\ valid_indices' = FilterValid(found.val)
            /\ rOut' = LookupAll(rMapping, FilterValid(found.val))
    /\ rpc' = "done"
    /\ UNCHANGED <<query, rIndex, rMapping, k, api_key, kUsed, query_embedding,
                   chunkVars, loadVars>>

----------------------------------------------------------------------------
(* The persisted artifacts: faiss.write_index / read_index, json.dump / load *)

\* chunking.py line 4: the max_words load_faiss_index chunks with
DEFAULT_MAX_WORDS == 100

\* A file of DATA_FILE's kind: whether it exists, and its text.
AbsentData == [exists |-> FALSE, text |-> <<>>]
DataOf(t) == [exists |-> TRUE, text |-> t]

\* "a b a b ...": n words, single spaces between them
WordsDoc(n) ==
    [i \in 1..(2 * n - 1) |->
       IF i % 2 = 0 THEN " " ELSE IF ((i + 1) \div 2) % 2 = 1 THEN "a" ELSE "b"]

\* the documents of the model: blank; two words on two lines (one chunk);
\* one word more than one chunk holds; one word more than two chunks hold
DataFiles ==
    {AbsentData, DataOf(<<" ", "\n">>), DataOf(<<"a", "\n", "b">>),
     DataOf(WordsDoc(DEFAULT_MAX_WORDS + 1)),
     DataOf(WordsDoc(2 * DEFAULT_MAX_WORDS + 1))}

\* INDEX_FILE: absent, cut short by a failed write ("torn"), or whole: the
\* dimension, the vector count and the vectors' numbers one after another.
AbsentIndex == [state |-> "absent", d |-> 0, ntotal |-> 0, codes |-> <<>>]
TornIndex == [state |-> "torn", d |-> 0, ntotal |-> 0, codes |-> <<>>]

RECURSIVE Flatten(_)
Flatten(rows) ==
    IF rows = <<>> THEN <<>> ELSE Head(rows) \o Flatten(Tail(rows))

\* faiss.write_index(index, INDEX_FILE), completed
write_index(index) ==
    [state |-> "ok", d |-> index.d, ntotal |-> index.ntotal,
     codes |-> Flatten(index.xb)]

\* faiss.read_index(INDEX_FILE)
read_index(f) ==
    IF f.state # "ok"
    THEN Raise("RuntimeError", "Error in faiss read_index")
    ELSE LET w == IF f.ntotal = 0 THEN 0 ELSE Len(f.codes) \div f.ntotal IN
         Ok([d |-> f.d, ntotal |-> f.ntotal,
             xb |-> [i \in 1..f.ntotal |->
                       SubSeq(f.codes, (i - 1) * w + 1, i * w)]])

\* MAPPING_FILE: whether it exists, and its JSON text as tokens: the two
\* brackets, the commas, and one string literal per chunk.
AbsentMapping == [exists |-> FALSE, tokens |-> <<>>]
Tok(t, lit) == [t |-> t, lit |-> lit]
LBracket == Tok("[", <<>>)
RBracket == Tok("]", <<>>)
Comma == Tok(",", <<>>)

\* the body of a JSON string literal (ensure_ascii=False): a line break is
\* written as backslash, n
RECURSIVE JsonEscape(_)
JsonEscape(str) ==
    IF str = <<>> THEN <<>>
    ELSE IF Len(str) = 1
    THEN IF str[1] = "\n" THEN <<"\\", "n">> ELSE str
    ELSE LET h == Len(str) \div 2
         IN JsonEscape(SubSeq(str, 1, h)) \o JsonEscape(SubSeq(str, h + 1, Len(str)))

\* the string a literal's body stands for: backslash, n is a line break
JsonUnescape(lit) ==
    LET kept == SelectSeq(Positions(Len(lit)),
                    LAMBDA i : ~(i > 1 /\ lit[i - 1] = "\\" /\ lit[i] = "n"))
    IN [j \in 1..Len(kept) |->
          IF lit[kept[j]] = "\\" THEN "\n" ELSE lit[kept[j]]]

RECURSIVE JsonItems(_)
JsonItems(lst) ==
    IF lst = <<>> THEN <<>>
    ELSE IF Len(lst) = 1 THEN <<Tok("str", JsonEscape(lst[1]))>>
    ELSE <<Tok("str", JsonEscape(lst[1])), Comma>> \o JsonItems(Tail(lst))

\* the text json.dump(mapping, f, indent=2, ensure_ascii=False) writes
json_dump(lst) == <<LBracket>> \o JsonItems(lst) \o <<RBracket>>

\* json.load(f) of a file holding toks
json_load(toks) ==
    LET n == Len(toks)
        wellFormed ==
            /\ n >= 2
            /\ toks[1].t = "[" /\ toks[n].t = "]"
            /\ n = 2 \/ n % 2 = 1
            /\ \A i \in 2..(n - 1) :
                 toks[i].t = (IF i % 2 = 0 THEN "str" ELSE ",")
    IN IF ~wellFormed
       THEN Raise("JSONDecodeError", "Expecting value")
       ELSE Ok([j \in 1..((n - 1) \div 2) |-> JsonUnescape(toks[2 * j].lit)])

----------------------------------------------------------------------------
(* utils/retrieval.py: load_faiss_index *)

\* np.vstack(embeddings): one row per array
vstack(arrs) == [i \in 1..Len(arrs) |-> arrs[i].lead]

\* _create_index(mat)
create_index(mat) == FaissIndex(mat)

\* line 78: INDEX_FILE.exists() and MAPPING_FILE.exists()
ArtifactsNeverFound(ixf, mpf) == FALSE
EitherExists(ixf, mpf) == ixf.state # "absent" \/ mpf.exists
BothExist(ixf, mpf) == ixf.state # "absent" /\ mpf.exists

\* line 83, negated: len(mapping) != index.ntotal raises
LengthsAgreeUpTo(mapping, index) == Len(mapping) <= index.ntotal
LengthsAgree(mapping, index) == Len(mapping) = index.ntotal

Mismatch ==
    "Number of chunks in the mapping does not match the number of chunks in the index."

Pair(index, mapping) == [index |-> index, mapping |-> mapping]

\* lines 79-87 on the artifacts ixf and mpf
LoadBranch(ixf, mpf) ==
    LET index == read_index(ixf)
        mapping == json_load(mpf.tokens)
    IN IF ~index.ok THEN index
       ELSE IF ~mpf.exists
       THEN Raise("FileNotFoundError", "No such file or directory")
       ELSE IF ~mapping.ok THEN mapping
       ELSE IF ~LengthsAgree(mapping.val, index.val)
       THEN Raise("ValueError", Mismatch)
       ELSE Ok(Pair(index.val, mapping.val))

\* A run starts: it has posted nothing yet, and finds the artifacts as they are.
BeginRun ==
    /\ lpc \in {"idle", "returned"}
    /\ indexFile0' = indexFile
    /\ mappingFile0' = mappingFile
    /\ builtAtStart' = built.done
    /\ embedLog' = <<>>
    /\ respLog' = <<>>

\* The run is over (line 87, 118 or 121): out goes to the caller and the
\* locals are gone.
Return(out) ==
    /\ lOut' = out
    /\ lpc' = "returned"
    /\ lKey' = ""
    /\ ci' = 1
    /\ embeddings' = <<>>
    /\ lMapping' = <<>>

\* lines 78-87: both artifacts exist; they are read and checked
LoadExisting ==
    /\ BeginRun
    /\ BothExist(indexFile, mappingFile)
    /\ branch' = "load"
    /\ readDoc' = FALSE
    /\ chunks' = <<>>
    /\ Return(LoadBranch(indexFile, mappingFile))
    /\ UNCHANGED <<fileVars, built, chunkVars, retrieveVars>>

\* lines 89-90: a build is needed and DATA_FILE is missing
NoDataFile ==
    /\ BeginRun
    /\ ~BothExist(indexFile, mappingFile)
    /\ ~dataFile.exists
    /\ branch' = "build"
    /\ readDoc' = FALSE
    /\ chunks' = <<>>
    /\ Return(Raise("FileNotFoundError", "Data file does not exist."))
    /\ UNCHANGED <<fileVars, built, chunkVars, retrieveVars>>

\* lines 92-99: DATA_FILE is read and chunked; key is the run's api_key
BeginBuild ==
    /\ BeginRun
    /\ ~BothExist(indexFile, mappingFile)
    /\ dataFile.exists
    /\ branch' = "build"
    /\ readDoc' = TRUE
    /\ LET got == chunk_text(dataFile.text, DEFAULT_MAX_WORDS) IN
       IF ~got.ok
       THEN chunks' = <<>> /\ Return(got)
       ELSE IF got.val = <<>>
       THEN /\ chunks' = <<>>
            /\ Return(Raise("ValueError", "No chunks found in the data file."))
       ELSE /\ chunks' = got.val
            /\ lKey' \in {"", "sk"}
            /\ lOut' = None
            /\ lpc' = "embed"
            /\ ci' = 1
            /\ embeddings' = <<>>
            /\ lMapping' = <<>>
    /\ UNCHANGED <<fileVars, built, chunkVars, retrieveVars>>

\* lines 101-110, one turn of the loop: chunks[ci] is embedded and checked
EmbedChunk ==
    /\ lpc = "embed"
    /\ \E resp \in BuildResponses :
         LET chunk == chunks[ci]
             emb == get_embedding(chunk, lKey, resp)
             posted == PostsRequest(chunk, lKey)
         IN \* without a request the service's answer plays no part
            /\ posted \/ resp = Transport
            /\ embedLog' = IF posted THEN Append(embedLog, chunk) ELSE embedLog
            /\ respLog' = IF posted THEN Append(respLog, resp) ELSE respLog
            /\ IF ~emb.ok
               THEN Return(emb)
               ELSE IF ~DimensionCheck(emb.val, ChunkMismatch, chunk).ok
               THEN Return(DimensionCheck(emb.val, ChunkMismatch, chunk))
               ELSE /\ embeddings' = Append(embeddings, emb.val)
                    /\ lMapping' = Append(lMapping, chunk)
                    /\ ci' = ci + 1
                    /\ lpc' = IF ci = Len(chunks) THEN "write_index" ELSE "embed"
                    /\ UNCHANGED <<lOut, lKey>>
    /\ UNCHANGED <<fileVars, chunks, branch, readDoc, indexFile0,
                   mappingFile0, built, builtAtStart, chunkVars, retrieveVars>>

\* lines 111-115: the index is created and written
WriteIndex ==
    /\ lpc = "write_index"
    /\ indexFile' = write_index(create_index(vstack(embeddings)))
    /\ lpc' = "open_mapping"
    /\ UNCHANGED <<dataFile, mappingFile, lKey, chunks, ci, embeddings, lMapping,
                   lOut, ghostVars, chunkVars, retrieveVars>>

\* lines 114-115 fail (mkdir or the write raises): INDEX_FILE is as it was,
\* or was opened for writing and is cut short
WriteIndexFails ==
    /\ lpc = "write_index"
    /\ indexFile' \in {indexFile, TornIndex}
    /\ Return(Raise("RuntimeError", "Error in faiss write_index"))
    /\ UNCHANGED <<dataFile, mappingFile, chunks, ghostVars, chunkVars,
                   retrieveVars>>

\* line 116: open(MAPPING_FILE, "w") creates the file, or empties it
OpenMapping ==
    /\ lpc = "open_mapping"
    /\ mappingFile' = [exists |-> TRUE, tokens |-> <<>>]
    /\ lpc' = "dump_mapping"
    /\ UNCHANGED <<dataFile, indexFile, lKey, chunks, ci, embeddings, lMapping,
                   lOut, ghostVars, chunkVars, retrieveVars>>

\* line 116 fails: open raises OSError and MAPPING_FILE is as it was
OpenMappingFails ==
    /\ lpc = "open_mapping"
    /\ Return(Raise("OSError", "open failed"))
    /\ UNCHANGED <<fileVars, chunks, ghostVars, chunkVars, retrieveVars>>

\* lines 117-118: the mapping is written and the pair returned
DumpMapping ==
    /\ lpc = "dump_mapping"
    /\ mappingFile' = [exists |-> TRUE, tokens |-> json_dump(lMapping)]
    /\ Return(Ok(Pair(create_index(vstack(embeddings)), lMapping)))
    /\ built' = [done |-> TRUE,
                 pair |-> Pair(create_index(vstack(embeddings)), lMapping)]
    /\ UNCHANGED <<dataFile, indexFile, chunks, branch, readDoc, embedLog,
                   respLog, indexFile0, mappingFile0, builtAtStart, chunkVars,
                   retrieveVars>>

\* line 117 fails: a write raises OSError with only the first n tokens of
\* the JSON text in MAPPING_FILE
DumpMappingFails ==
    /\ lpc = "dump_mapping"
    /\ \E n \in 0..(Len(json_dump(lMapping)) - 1) :
         mappingFile' = [exists |-> TRUE, tokens |-> SubSeq(json_dump(lMapping), 1, n)]
    /\ Return(Raise("OSError", "write failed"))
    /\ UNCHANGED <<dataFile, indexFile, chunks, ghostVars, chunkVars, retrieveVars>>

\* Between two runs nothing of the last run is left but the files.
NoPair == Pair(FaissIndex(<<>>), <<>>)
Forgotten ==
    /\ lpc' = "idle"
    /\ lOut' = None
    /\ lKey' = ""
    /\ chunks' = <<>>
    /\ ci' = 1
    /\ embeddings' = <<>>
    /\ lMapping' = <<>>
    /\ branch' = "none"
    /\ readDoc' = FALSE
    /\ embedLog' = <<>>
    /\ respLog' = <<>>
    /\ indexFile0' = AbsentIndex
    /\ mappingFile0' = AbsentMapping
    /\ builtAtStart' = FALSE

\* the user replaces, creates or removes DATA_FILE between two runs
EditDocument ==
    /\ lpc \in {"idle", "returned"}
    /\ dataFile' \in DataFiles \ {dataFile}
    /\ Forgotten
    /\ UNCHANGED <<indexFile, mappingFile, built, chunkVars, retrieveVars>>

\* Something other than load_faiss_index removes INDEX_FILE between two runs.
TamperDeleteIndex ==
    /\ lpc \in {"idle", "returned"}
    /\ indexFile.state # "absent"
    /\ indexFile' = AbsentIndex
    /\ Forgotten
    /\ built' = [done |-> FALSE, pair |-> NoPair]
    /\ UNCHANGED <<dataFile, mappingFile, chunkVars, retrieveVars>>

\* Something other than load_faiss_index removes MAPPING_FILE between two runs.
TamperDeleteMapping ==
    /\ lpc \in {"idle", "returned"}
    /\ mappingFile.exists
    /\ mappingFile' = AbsentMapping
    /\ Forgotten
    /\ built' = [done |-> FALSE, pair |-> NoPair]
    /\ UNCHANGED <<dataFile, indexFile, chunkVars, retrieveVars>>

\* Something other than load_faiss_index rewrites MAPPING_FILE between two
\* runs: valid JSON, a list of n strings.
TamperRewriteMapping ==
    /\ lpc \in {"idle", "returned"}
    /\ mappingFile.exists
    /\ \E n \in 0..MaxTamperLen :
         mappingFile' = [exists |-> TRUE,
                         tokens |-> json_dump([j \in 1..n |-> <<"a">>])]
    /\ mappingFile' # mappingFile
    /\ Forgotten
    /\ built' = [done |-> FALSE, pair |-> NoPair]
    /\ UNCHANGED <<dataFile, indexFile, chunkVars, retrieveVars>>

----------------------------------------------------------------------------
(* Values of the variables of a call that a specification does not make *)

ChunkParked ==
    /\ text = <<>>
    /\ max_words = 0
    /\ chunkOut = None
    /\ cpc = "parked"

RetrieveParked ==
    /\ query = <<>>
    /\ rIndex = FaissIndex(<<>>)
    /\ rMapping = <<>>
    /\ k = 0
    /\ api_key = ""
    /\ kUsed = 0
    /\ query_embedding = NdScalar
    /\ indices = <<>>
    /\ valid_indices = <<>>
    /\ rOut = None
    /\ rpc = "parked"

\* a fresh checkout: no faiss_store directory, no run made
NoRunYet ==
    /\ indexFile = AbsentIndex
    /\ mappingFile = AbsentMapping
    /\ lKey = ""
    /\ chunks = <<>>
    /\ ci = 1
    /\ embeddings = <<>>
    /\ lMapping = <<>>
    /\ lOut = None
    /\ lpc = "idle"
    /\ branch = "none"
    /\ readDoc = FALSE
    /\ embedLog = <<>>
    /\ respLog = <<>>
    /\ indexFile0 = AbsentIndex
    /\ mappingFile0 = AbsentMapping
    /\ built = [done |-> FALSE, pair |-> NoPair]
    /\ builtAtStart = FALSE

LoadParked == dataFile = AbsentData /\ NoRunYet

----------------------------------------------------------------------------
(* Spec: runs of load_faiss_index, one at a time, the only writer of the   *)
(* artifacts; the user may edit the document between runs                  *)

Init ==
    /\ ChunkParked
    /\ RetrieveParked
    /\ dataFile \in DataFiles
    /\ NoRunYet

Next ==
    \/ LoadExisting
    \/ NoDataFile
    \/ BeginBuild
    \/ EmbedChunk
    \/ WriteIndex
    \/ WriteIndexFails
    \/ OpenMapping
    \/ OpenMappingFails
    \/ DumpMapping
    \/ DumpMappingFails
    \/ EditDocument

Spec == Init /\ [][Next]_vars

----------------------------------------------------------------------------
(* SpecTamper: as Spec, and the artifacts may be removed or rewritten       *)
(* from outside between runs                                               *)

TamperNext ==
    \/ Next
    \/ TamperDeleteIndex
    \/ TamperDeleteMapping
    \/ TamperRewriteMapping

SpecTamper == Init /\ [][TamperNext]_vars

----------------------------------------------------------------------------
(* SpecChunk: chunk_text applied to every bounded text *)

Texts == UNION {[1..n -> Alphabet] : n \in 0..MaxLen}

ChunkInit ==
    /\ text \in Texts
    /\ max_words \in 0..MaxWords
    /\ chunkOut = None
    /\ cpc = "call"
    /\ RetrieveParked
    /\ LoadParked

CallChunkText ==
    /\ cpc = "call"
    /\ chunkOut' = chunk_text(text, max_words)
    /\ cpc' = "done"
    /\ UNCHANGED <<text, max_words, retrieveVars, loadVars>>

ChunkNext == CallChunkText

SpecChunk == ChunkInit /\ [][ChunkNext]_vars

----------------------------------------------------------------------------
(* SpecRetrieve: retrieve_top_k applied to every bounded (index, mapping)   *)
(* pair of equal length, query, k and key, the service answering anything  *)

Letters == <<"A", "B", "C", "D", "E", "F", "G", "H", "I">>

\* "A B C ...": the first n letters, single spaces between them
LetterText(n) ==
    [i \in 1..(2 * n - 1) |-> IF i % 2 = 1 THEN Letters[(i + 1) \div 2] ELSE " "]

\* the n chunks "A B", "C D", ..., the last one a single letter
SampleMapping(n) ==
    IF n = 0 THEN <<>> ELSE chunk_text(LetterText(2 * n - 1), 2).val

RetrieveInit ==
    /\ ChunkParked
    /\ LoadParked
    /\ \E n \in 0..MaxIndexSize :
         /\ rIndex \in {FaissIndex(xb) : xb \in [1..n -> LeadVectors]}
         /\ rMapping = SampleMapping(n)
    /\ query \in {<<>>, <<"q">>}
    /\ k \in 0..MaxK
    /\ api_key \in {"", "sk"}
    /\ kUsed = 0
    /\ query_embedding = NdScalar
    /\ indices = <<>>
    /\ valid_indices = <<>>
    /\ rOut = None
    /\ rpc = "call"

RetrieveNext == RetrieveValidate \/ RetrieveEmbed \/ RetrieveSearch

SpecRetrieve == RetrieveInit /\ [][RetrieveNext]_vars

----------------------------------------------------------------------------
(* Words, nearest neighbours and error kinds, as the properties speak of   *)
(* them                                                                    *)

\* where the whitespace-delimited words of s start
WordStarts(s) ==
    {i \in 1..Len(s) : ~IsSpace(s[i]) /\ (i = 1 \/ IsSpace(s[i - 1]))}

WordEnd(s, i) ==
    CHOOSE j \in i..Len(s) :
        /\ \A m \in i..j : ~IsSpace(s[m])
        /\ j = Len(s) \/ IsSpace(s[j + 1])

NthWordStart(s, n) ==
    CHOOSE i \in WordStarts(s) : Cardinality({j \in WordStarts(s) : j < i}) = n - 1

\* the whitespace-delimited words of s, in order
WordsOf(s) ==
    [n \in 1..Cardinality(WordStarts(s)) |->
       SubSeq(s, NthWordStart(s, n), WordEnd(s, NthWordStart(s, n)))]

\* ceil(n / m)
CeilDiv(n, m) == CHOOSE q \in 0..n : q * m >= n /\ (q = 0 \/ (q - 1) * m < n)

Min(a, b) == IF a < b THEN a ELSE b

Dist2(a, b) == (a[1] - b[1]) * (a[1] - b[1]) + (a[2] - b[2]) * (a[2] - b[2])

\* row i of xb is nearer to q than row j, or as near and earlier
Before(xb, q, i, j) ==
    \/ Dist2(xb[i], q) < Dist2(xb[j], q)
    \/ Dist2(xb[i], q) = Dist2(xb[j], q) /\ i < j

\* the chunks of the kk rows nearest to q, nearest first
NearestChunks(index, mapping, q, kk) ==
    [r \in 1..Min(kk, index.ntotal) |->
       mapping[CHOOSE i \in 1..index.ntotal :
                 Cardinality({j \in 1..index.ntotal : Before(index.xb, q, j, i)}) = r - 1]]

\* the kind of section 7's taxonomy an error is of
ErrorKind(e) ==
    CASE e.msg \in {"Text must be a non-empty string.",
                    "An API key must be supplied via the api_key argument.",
                    "Query must be a non-empty string.",
                    "k must be a positive integer."} -> "invalid-argument"
      [] e.msg = "Error while embedding API request" -> "remote-service"
      [] e.msg = "Network Error while connecting to embedding API" -> "network"
      [] e.msg \in {"Failed to parse JSON response", "Invalid JSON response object",
                    "Response does not contain any data."} -> "malformed-response"
      [] e.msg = "Error while parsing embedding API response" -> "response-schema"
      [] e.msg \in {QueryMismatch, ChunkMismatch} -> "dimension-mismatch"
      [] OTHER -> "other"

\* the errors a query's embedding can end in
EmbeddingPathErrors ==
    {EmbedQuery(q, key, resp) :
        q \in {<<>>, <<"q">>}, key \in {"", "sk"},
        resp \in {r \in Responses : ~EmbedQuery(<<"q">>, "sk", r).ok}}

\* the embedding service's answer is no usable embedding of EMBEDDING_DIM numbers
BadAnswer(chunk, resp) ==
    LET emb == get_embedding(chunk, "sk", resp)
    IN ~emb.ok \/ emb.val.shape # <<EMBEDDING_DIM>>

\* the artifacts the run found
MismatchAtStart ==
    /\ indexFile0.state = "ok"
    /\ mappingFile0.exists
    /\ json_load(mappingFile0.tokens).ok
    /\ Len(json_load(mappingFile0.tokens).val) # indexFile0.ntotal

OneArtifactAtStart == (indexFile0.state # "absent") # mappingFile0.exists

ArtifactsUntouched == indexFile = indexFile0 /\ mappingFile = mappingFile0

----------------------------------------------------------------------------
(* The properties *)

\* C1: after any sequence of runs of load_faiss_index, aborted ones
\* included, a returned pair has len(mapping) = index.ntotal, and when both
\* artifacts exist MAPPING_FILE holds as many entries as INDEX_FILE holds
\* vectors.
C1_MappingAgreesWithIndex ==
    /\ (lpc = "returned" /\ lOut.ok)
          => Len(lOut.val.mapping) = lOut.val.index.ntotal
    /\ (lpc \in {"idle", "returned"} /\ BothExist(indexFile, mappingFile))
          => /\ read_index(indexFile).ok
             /\ json_load(mappingFile.tokens).ok
             /\ Len(json_load(mappingFile.tokens).val) = read_index(indexFile).val.ntotal

\* C2: a run that finds both artifacts, the mapping's length differing from
\* the index's vector count, raises the consistency error, returns no pair,
\* and leaves both artifacts as they were, embedding and reading nothing.
C2_MismatchRaises ==
    (lpc = "returned" /\ MismatchAtStart)
       => /\ ~lOut.ok
          /\ lOut.exc = "ValueError" /\ lOut.msg = Mismatch
          /\ branch = "load"
          /\ ArtifactsUntouched
          /\ embedLog = <<>> /\ ~readDoc

C2_Witness ==
    /\ lpc = "returned"
    /\ MismatchAtStart
    /\ indexFile0.ntotal = 3
    /\ ~lOut.ok

\* C3, as claimed: a run that finds exactly one of the two artifacts raises
\* and leaves the artifact it found as it was.
C3_OneArtifactIsAnError ==
    (lpc = "returned" /\ OneArtifactAtStart)
       => /\ ~lOut.ok
          /\ indexFile0.state # "absent" => indexFile = indexFile0
          /\ mappingFile0.exists => mappingFile = mappingFile0

\* C3, amended: a run that finds exactly one of the two artifacts takes the
\* build branch and never raises the consistency error; when it returns, it
\* has read the document and embedded every chunk, and both artifacts hold
\* the pair it returns (the artifact it found is overwritten).
C3_OneArtifactIsRebuilt ==
    (lpc = "returned" /\ OneArtifactAtStart)
       => /\ branch = "build"
          /\ ~lOut.ok => lOut.msg # Mismatch
          /\ lOut.ok =>
               /\ readDoc
               /\ embedLog = lOut.val.mapping
               /\ read_index(indexFile) = Ok(lOut.val.index)
               /\ json_load(mappingFile.tokens) = Ok(lOut.val.mapping)

C3_Witness ==
    /\ lpc = "returned"
    /\ OneArtifactAtStart
    /\ indexFile0.state = "ok"
    /\ lOut.ok
    /\ indexFile # indexFile0

\* C4: the first chunk whose embedding call fails or whose embedding is not
\* EMBEDDING_DIM long ends the build at once with an error (naming the chunk
\* when it is the dimension): no later chunk is posted, and both artifacts
\* are as the run found them.
C4_BadChunkAbortsBuild ==
    /\ \A j \in 1..Len(respLog) :
         BadAnswer(embedLog[j], respLog[j]) =>
            /\ j = Len(respLog)
            /\ lpc = "returned" /\ ~lOut.ok
            /\ embedLog = SubSeq(chunks, 1, j)
            /\ ArtifactsUntouched
            /\ get_embedding(embedLog[j], "sk", respLog[j]).ok =>
                 lOut = RaiseFor("ValueError", ChunkMismatch, chunks[j])
                 \/ lOut.exc = "IndexError"
            /\ ~get_embedding(embedLog[j], "sk", respLog[j]).ok =>
                 lOut = get_embedding(embedLog[j], "sk", respLog[j])
    /\ (lpc = "returned" /\ branch = "build" /\ chunks # <<>> /\ embedLog = <<>>)
          => ~lOut.ok /\ ArtifactsUntouched

C4_Witness ==
    /\ lpc = "returned"
    /\ Len(chunks) = 3
    /\ Len(respLog) = 2
    /\ lOut = RaiseFor("ValueError", ChunkMismatch, chunks[2])
    /\ indexFile0.state = "ok"

\* C5: once a build has persisted both artifacts, every later run takes the
\* load branch: it posts no embedding request, does not read DATA_FILE,
\* leaves both artifacts as they were, and returns the vectors and the
\* chunks the build returned.
C5_ReloadWithoutReembedding ==
    builtAtStart
       => /\ lpc = "returned"
          /\ branch = "load"
          /\ lOut = Ok(built.pair)
          /\ embedLog = <<>> /\ ~readDoc
          /\ ArtifactsUntouched

C5_Witness ==
    /\ lpc = "returned"
    /\ builtAtStart
    /\ lOut.ok
    /\ Len(lOut.val.mapping) = 3
    /\ ~dataFile.exists

\* C6: for a text of n words and 1 <= max_words < n, chunk_text returns
\* ceil(n / max_words) chunks of at most max_words words each, whose words,
\* chunk after chunk, are the text's words.
C6_ChunksPartitionWords ==
    (cpc = "done" /\ max_words >= 1 /\ Len(WordsOf(text)) > max_words)
       => /\ chunkOut.ok
          /\ Len(chunkOut.val) = CeilDiv(Len(WordsOf(text)), max_words)
          /\ \A j \in 1..Len(chunkOut.val) :
               Len(WordsOf(chunkOut.val[j])) <= max_words
          /\ Flatten([j \in 1..Len(chunkOut.val) |-> WordsOf(chunkOut.val[j])])
               = WordsOf(text)

C6_Witness ==
    /\ cpc = "done"
    /\ max_words = 2
    /\ Len(WordsOf(text)) = 3
    /\ chunkOut.ok
    /\ Len(chunkOut.val) = 2

\* the index and the query of section 8's scenario
ScenarioVectors == <<<<0, 0>>, <<1, 1>>, <<2, 2>>>>
Scenario ==
    /\ rpc = "done"
    /\ rIndex.xb = ScenarioVectors
    /\ query_embedding = NdArray(EMBEDDING_DIM, <<1, 1>>)
    /\ k = 2

\* C7: what retrieve_top_k returns is the chunks of the k vectors with the
\* smallest squared Euclidean distance to the query's embedding, nearest
\* first, the earlier position first at equal distance; in the scenario it
\* returns ["C D", "A B"].
C7_NearestFirst ==
    /\ (rpc = "done" /\ rOut.ok)
          => rOut.val = NearestChunks(rIndex, rMapping, query_embedding.lead, k)
    /\ Scenario
          => rOut = Ok(<<<<"C", " ", "D">>, <<"A", " ", "B">>>>)

C7_Witness ==
    /\ Scenario
    /\ rOut.ok
    /\ Len(rOut.val) = 2

\* C8: past the argument checks k is min(k, len(mapping)); what
\* retrieve_top_k returns is at most that many chunks, each the mapping's
\* entry at a position of the index, no position twice and none negative;
\* with k above the index size it is every indexed chunk once.
C8_ClampedValidPositions ==
    /\ (rpc \in {"embed", "search"} \/ (rpc = "done" /\ rOut.ok))
          => kUsed = Min(k, Len(rMapping))
    /\ (rpc = "done" /\ rOut.ok)
          => /\ Len(rOut.val) <= kUsed
             /\ Len(valid_indices) = Len(rOut.val)
             /\ \A j \in 1..Len(valid_indices) :
                  /\ valid_indices[j] \in 0..(rIndex.ntotal - 1)
                  /\ rOut.val[j] = rMapping[valid_indices[j] + 1]
                  /\ \A i \in 1..Len(valid_indices) :
                       valid_indices[i] = valid_indices[j] => i = j
             /\ k > rIndex.ntotal
                  => {valid_indices[j] : j \in 1..Len(valid_indices)}
                        = 0..(rIndex.ntotal - 1)

C8_Witness ==
    /\ rpc = "done"
    /\ rOut.ok
    /\ rIndex.ntotal = 3
    /\ k > rIndex.ntotal
    /\ Len(rOut.val) = 3

\* C9: a search of an empty index (no vector, empty mapping) with a
\* non-empty query and k >= 1 returns an empty sequence.
C9_EmptyIndexReturnsEmpty ==
    (/\ rpc = "done"
     /\ rIndex.ntotal = 0 /\ rMapping = <<>>
     /\ Len(query) > 0 /\ k >= 1
     /\ query_embedding # NdScalar)
       => rOut.ok /\ rOut.val = <<>>

\* C10: the class of an error of the embedding path tells its kind: no two
\* errors of different kinds (invalid argument, remote service, network,
\* malformed response, response schema, dimension mismatch) are raised as
\* the same exception class.
C10_ErrorKindsDistinct ==
    (rpc = "done" /\ rOut \in EmbeddingPathErrors)
       => \A e \in EmbeddingPathErrors :
            e.exc = rOut.exc => ErrorKind(e) = ErrorKind(rOut)

====
